---- MODULE Spec2Model ----
(***************************************************************************)
(* State-machine model of the data pipeline of src/src/utils/reader.py:    *)
(* Vocabulary, the Padding strategies, DataQueue, the input pipelines and  *)
(* Language.  Every component has its own specification over its own       *)
(* group of variables; the variables of the other groups stay idle.        *)
(*                                                                         *)
(* Python values are modelled as follows.                                  *)
(*   list            a sequence                                            *)
(*   dict            a sequence of <<key, value>> pairs with pairwise      *)
(*                   distinct keys, in insertion order                     *)
(*   an exception    the result record's "state" field names it            *)
(***************************************************************************)
EXTENDS Integers, Sequences, FiniteSets, TLC

\* ------------------------------------------------------------------ bounds

\* Vocabulary files hold at most MaxWords word lines.
MaxWords == 3
\* At most MaxLangs language identifiers are configured.
MaxLangs == 2
\* A corpus line holds at most MaxLen words.
MaxLen == 2
\* The padders are given at most MaxData lines.
MaxData == 3
\* max_segment_size ranges over 1..MaxSeg.
MaxSeg == 2
\* A corpus file holds at most MaxLines lines.
MaxLines == 5
\* At most MaxConstructs DataQueue objects are constructed in one run.
MaxConstructs == 2
\* batch_size ranges over 1..MaxBatch.
MaxBatch == 2
\* A text file read by initialize_corpus has up to MaxTextLines lines.
MaxTextLines == 2
\* initialize_corpus is called up to MaxCalls times on one Corpora object.
MaxCalls == 2
\* A segment limit of the pipelines' DataQueue that the corpus files of the
\* model exceed: it stands for MAX_SEGMENT before a corpus of more lines.
SmallSegment == 3

\* DataQueue.MAX_SEGMENT
MAX_SEGMENT == 50000

\* ------------------------------------------------------------------ state

VARIABLES
    vocabIn,      \* the arguments of Vocabulary(...): file content, identifiers, flag
    vocabulary,   \* the Vocabulary object (state "none" before construction)
    lookup,       \* the last Vocabulary.__call__: expression and outcome
    langIn,       \* the arguments of Language(...): identifier, input_pipelines
    language,     \* the outcome of Language(...): the instance, or the exit
    padIn,        \* a padder and its input: padding_type, max_segment_size, data
    converted,    \* the outcome of padder(data)
    batchArg,     \* the list handed to create_batch, as it is after the call
    batch,        \* the outcome of padder.create_batch(...)
    srcFile,      \* the corpus text file at data_path: its lines
    idFile,       \* the id-cache file beside it: whether it exists, its lines
    queue,        \* the DataQueue object
    qgen,         \* the frame of the generator made by queue.generator()
    qout,         \* the segments this generator has yielded so far
    corpus,       \* the Monolingual corpus object: its data
    pipeIn,       \* the arguments of MemoryInput(...) or FileInput(...)
    pipe,         \* the input pipeline object, or the exception of its __init__
    gen,          \* the frame of the generator made by pipe.batch_generator()
    batches,      \* the batches this generator has yielded so far
    earlier,      \* how the pass before this one ended, and its batches
                  \* (kept of the passes that are not shuffled)
    corpusCall,   \* the Corpora object's class and attributes, and how its
                  \* last initialize_corpus() ended
    units,        \* the encoder and the decoder: their attributes
    seqToSeq      \* the SeqToSeq object, and the calls made on the units

vocabVars == <<vocabIn, vocabulary, lookup>>
langVars == <<langIn, language>>
padVars == <<padIn, converted, batchArg, batch>>
queueVars == <<srcFile, idFile, queue, qgen, qout>>
pipeVars == <<corpus, pipeIn, pipe, gen, batches, earlier, corpusCall>>
modelVars == <<units, seqToSeq>>

vars == <<vocabIn, vocabulary, lookup, langIn, language,
          padIn, converted, batchArg, batch,
          srcFile, idFile, queue, qgen, qout,
          corpus, pipeIn, pipe, gen, batches, earlier, corpusCall,
          units, seqToSeq>>

\* ------------------------------------------------------------- Python dict

\* key in d
DictHas(d, k) == \E i \in 1..Len(d) : d[i][1] = k

\* d[k], for a key that is present
DictGet(d, k) == d[CHOOSE i \in 1..Len(d) : d[i][1] = k][2]

\* d[k] = v: a present key keeps its place, a new key is appended
DictSet(d, k, v) ==
    IF DictHas(d, k)
    THEN [i \in 1..Len(d) |-> IF d[i][1] = k THEN <<k, v>> ELSE d[i]]
    ELSE Append(d, <<k, v>>)

DictKeys(d) == {d[i][1] : i \in 1..Len(d)}

DictValues(d) == {d[i][2] : i \in 1..Len(d)}

\* all sequences over S of length at most n
SeqUpTo(S, n) == UNION {[1..k -> S] : k \in 0..n}

\* -------------------------------------------------------------- Vocabulary

\* The words a vocabulary file may list, and the configured identifiers.
FileWords == {"hello", "world", "<2>"}
LangTokens == {"<2>", "<3>"}

ReservedTokens == <<"<SOS>", "<EOS>", "<UNK>", "<PAD>">>

\* for index, line in enumerate(file): word_to_id[word] = index
RECURSIVE LoadFileWords(_, _, _)
LoadFileWords(words, index, d) ==
    IF index >= Len(words) THEN d
    ELSE LoadFileWords(words, index + 1, DictSet(d, words[index + 1], index))

\* for token in tokens: word_to_id[token] = len(word_to_id)
RECURSIVE AppendTokens(_, _, _)
AppendTokens(tokens, n, d) ==
    IF n > Len(tokens) THEN d
    ELSE AppendTokens(tokens, n + 1, DictSet(d, tokens[n], Len(d)))

\* dict(zip(d.values(), d.keys())): a later entry overrides an earlier one
RECURSIVE ZipInverse(_, _, _)
ZipInverse(d, n, acc) ==
    IF n > Len(d) THEN acc
    ELSE ZipInverse(d, n + 1, DictSet(acc, d[n][2], d[n][1]))

\* self._vocab_size = int(first_line[0]) + 4 + len(self._language_identifiers)
RawVocabSize(header, langs) == header + 4 + Len(langs)

\* With provided embeddings the row of every file line is written while the
\* file is read: a line whose index is not a row of the matrix raises IndexError.
LoadRaisesIndexError(in) ==
    /\ in.provided
    /\ Len(in.words) > RawVocabSize(in.header, in.langs)

\* A row of the embedding matrix: the weights parsed from the file line of
\* 0-based index line, zeros, a random draw (line tells the draws apart), or
\* what numpy.empty left there.
FileRow(line) == [kind |-> "file", line |-> line]
ZeroRow == [kind |-> "zero", line |-> 0]
RandomRow(index) == [kind |-> "random", line |-> index]
EmptyRow == [kind |-> "empty", line |-> 0]

\* The embedding matrix of vocab_size rows, row of 0-based index i at i + 1:
\* the rows of the file lines are written first, then rows -1..-4 are set to
\* zeros and rows -5, -6, ... (one for every identifier) to random vectors.
EmbeddingWeights(in) ==
    LET size == RawVocabSize(in.header, in.langs)
    IN  [r \in 1..size |->
            LET i == r - 1
            IN  IF i >= size - 4 THEN ZeroRow
                ELSE IF i >= size - 4 - Len(in.langs) THEN RandomRow(i - size)
                ELSE IF i < Len(in.words) THEN FileRow(i)
                ELSE EmptyRow]

Vocabulary_load_data(in) ==
    LET w2i == AppendTokens(ReservedTokens, 1,
                   AppendTokens(in.langs, 1,
                       LoadFileWords(in.words, 0, <<>>)))
    IN  [state      |-> "built",
         word_to_id |-> w2i,
         id_to_word |-> ZipInverse(w2i, 1, <<>>),
         vocab_size |-> RawVocabSize(in.header, in.langs),
         embedding_weights |-> IF in.provided THEN EmbeddingWeights(in) ELSE <<>>]

NoVocabulary ==
    [state |-> "none", word_to_id |-> <<>>, id_to_word |-> <<>>, vocab_size |-> 0,
     embedding_weights |-> <<>>]

FailedVocabulary ==
    [state |-> "IndexError", word_to_id |-> <<>>, id_to_word |-> <<>>, vocab_size |-> 0,
     embedding_weights |-> <<>>]

Vocabulary_init(in) ==
    IF LoadRaisesIndexError(in) THEN FailedVocabulary ELSE Vocabulary_load_data(in)

\* The vocab_size property.
Vocabulary_vocab_size(v) == v.vocab_size - 1

\* The tokens property: the id of a reserved token.
Vocabulary_tokens(v, t) == DictGet(v.word_to_id, t)

\* Expressions and outcomes of __call__ are tagged values.
StrVal(w) == [type |-> "str", word |-> w, id |-> 0]
IntVal(i) == [type |-> "int", word |-> "", id |-> i]
OtherVal == [type |-> "other", word |-> "", id |-> 0]
Raised(e) == [type |-> e, word |-> "", id |-> 0]

Vocabulary_call(v, expression) ==
    IF expression.type = "str"
    THEN IF DictHas(v.word_to_id, expression.word)
         THEN IntVal(DictGet(v.word_to_id, expression.word))
         ELSE Raised("KeyError")
    ELSE IF expression.type = "int"
    THEN IF DictHas(v.id_to_word, expression.id)
         THEN StrVal(DictGet(v.id_to_word, expression.id))
         ELSE Raised("KeyError")
    ELSE Raised("ValueError")

NoLookup == [expression |-> OtherVal, result |-> OtherVal, done |-> FALSE]

VocabInputs ==
    [header   : 0..MaxWords,
     words    : SeqUpTo(FileWords, MaxWords),
     langs    : SeqUpTo(LangTokens, MaxLangs),
     provided : BOOLEAN]

InitVocab ==
    /\ vocabIn \in VocabInputs
    /\ vocabulary = NoVocabulary
    /\ lookup = NoLookup

\* The Vocabulary group while another component is being run.
IdleVocab ==
    /\ vocabIn = [header |-> 0, words |-> <<>>, langs |-> <<>>, provided |-> FALSE]
    /\ vocabulary = NoVocabulary
    /\ lookup = NoLookup

\* Vocabulary(vocab_path, language_identifiers, provided_embeddings, ...)
ConstructVocabulary ==
    /\ vocabulary.state = "none"
    /\ vocabulary' = Vocabulary_init(vocabIn)
    /\ UNCHANGED <<vocabIn, lookup, langVars, padVars, queueVars, pipeVars, modelVars>>

LookupExpressions ==
    {StrVal(w) : w \in FileWords \cup LangTokens \cup {"<SOS>", "<EOS>", "<UNK>", "<PAD>", "zzz"}}
        \cup {IntVal(i) : i \in 0..(MaxWords + MaxLangs + 4)}
        \cup {OtherVal}

\* vocabulary(expression)
CallVocabulary ==
    /\ vocabulary.state = "built"
    /\ \E e \in LookupExpressions :
          lookup' = [expression |-> e,
                     result     |-> Vocabulary_call(vocabulary, e),
                     done       |-> TRUE]
    /\ UNCHANGED <<vocabIn, vocabulary, langVars, padVars, queueVars, pipeVars,
                   modelVars>>

NextVocab == ConstructVocabulary \/ CallVocabulary

\* ---------------------------------------------------------------- Language

RequiredPipelines == {"train", "dev", "test"}

\* The keys an input_pipelines mapping may carry.
PipelineKeys == RequiredPipelines \cup {"valid", "extra"}

\* The input_pipelines argument: a dict with some keys, or no dict at all.
PipelineArgs ==
    {[kind |-> "dict", keys |-> K] : K \in SUBSET PipelineKeys}
        \cup {[kind |-> k, keys |-> {}] : k \in {"list", "None"}}

Identifiers == {"<en>", "<fr>"}

\* Mutant: the assert on 'test' is missing.
Language_failed_assert_no_test(input_pipelines) ==
    IF input_pipelines.kind # "dict" THEN "train, dev, test"
    ELSE IF "train" \notin input_pipelines.keys THEN "train"
    ELSE IF "dev" \notin input_pipelines.keys THEN "dev"
    ELSE ""

\* Mutant: a mapping with a key besides the three required ones is refused.
Language_failed_assert_exact(input_pipelines) ==
    IF input_pipelines.kind # "dict" THEN "train, dev, test"
    ELSE IF "train" \notin input_pipelines.keys THEN "train"
    ELSE IF "dev" \notin input_pipelines.keys THEN "dev"
    ELSE IF "test" \notin input_pipelines.keys THEN "test"
    ELSE IF input_pipelines.keys # RequiredPipelines THEN "train, dev, test"
    ELSE ""

\* The asserts of the try block, in order: the first that fails gives the
\* message of the AssertionError; "" when all of them pass.
Language_failed_assert(input_pipelines) ==
    IF input_pipelines.kind # "dict" THEN "train, dev, test"
    ELSE IF "train" \notin input_pipelines.keys THEN "train"
    ELSE IF "dev" \notin input_pipelines.keys THEN "dev"
    ELSE IF "test" \notin input_pipelines.keys THEN "test"
    ELSE ""

NoLanguage ==
    [state |-> "none", identifier |-> "", input_pipelines |-> {}, error |-> ""]

\* Language.__init__: a failed assert is logged and ends in sys.exit(), which
\* leaves __init__ by SystemExit before _input_pipelines is set; otherwise the
\* mapping is stored as it was given.
Language_init(in) ==
    LET failed == Language_failed_assert(in.input_pipelines)
    IN  IF failed # ""
        THEN [state |-> "SystemExit", identifier |-> "", input_pipelines |-> {},
              error |-> failed]
        ELSE [state |-> "constructed", identifier |-> in.identifier,
              input_pipelines |-> in.input_pipelines.keys, error |-> ""]

InitLang ==
    /\ langIn \in [identifier : Identifiers, input_pipelines : PipelineArgs]
    /\ language = NoLanguage

IdleLang ==
    /\ langIn = [identifier |-> "", input_pipelines |-> [kind |-> "None", keys |-> {}]]
    /\ language = NoLanguage

\* Language(identifier, input_pipelines, vocabulary)
ConstructLanguage ==
    /\ language.state = "none"
    /\ language' = Language_init(langIn)
    /\ UNCHANGED <<langIn, vocabVars, padVars, queueVars, pipeVars, modelVars>>

NextLang == ConstructLanguage

\* ----------------------------------------------------------------- Padding

\* The vocabulary the padders and pipelines below work with: the file
\* "2 3\nhello ...\nworld ...\n" with the identifier <2>.
CorpusVocabulary ==
    Vocabulary_load_data([header |-> 2, words |-> <<"hello", "world">>,
                          langs |-> <<"<2>">>, provided |-> FALSE])

\* The words of corpus lines; "zzz" is not in the vocabulary.
CorpusWords == {"hello", "zzz"}

\* A corpus line, as its words.
Sentences == SeqUpTo(CorpusWords, MaxLen)

\* ids_from_sentence(vocabulary, line): the id of every word of the line, a
\* word that the vocabulary does not hold giving the id of <UNK>.
ids_from_sentence(v, line) ==
    [j \in 1..Len(line) |->
        IF DictHas(v.word_to_id, line[j]) THEN DictGet(v.word_to_id, line[j])
        ELSE Vocabulary_tokens(v, "<UNK>")]

\* seq[from:to] of Python, for 0 <= from
Slice(seq, from, to) ==
    LET hi == IF to < Len(seq) THEN to ELSE Len(seq)
    IN  IF from >= hi THEN <<>> ELSE SubSeq(seq, from + 1, hi)

\* n copies of x
Repeat(x, n) == [j \in 1..n |-> x]

\* x[-1]
Last(row) == row[Len(row)]

\* A padder's result: the rows, or the exception that ended the call.
Rows(rows) == [state |-> "ok", rows |-> rows]
Failed(e) == [state |-> e, rows |-> <<>>]
NoRows == [state |-> "none", rows |-> <<>>]

\* PostPadding.__call__: every line becomes its ids followed by their count.
\* The chunks of max_segment_size lines are converted one after the other,
\* which is the conversion of the lines in order.
PostPadding_call(v, max_segment_size, data) ==
    Rows([n \in 1..Len(data) |->
             LET ids == ids_from_sentence(v, data[n])
             IN  Append(ids, Len(ids))])

\* The body of PrePadding's inner loop for one line.  data_line[:-1] = ids is
\* a numpy assignment: it needs len(ids) = segment_length, except that a list
\* of one element is broadcast onto the slice whatever its length; any other
\* length raises ValueError.
PrePadding_convert_line(v, line, segment_length) ==
    LET ids     == ids_from_sentence(v, line)
        ids_len == Len(ids)
        padded  == IF ids_len < segment_length
                   THEN ids \o Repeat(Vocabulary_tokens(v, "<PAD>"), segment_length - ids_len)
                   ELSE ids
    IN  IF Len(padded) = segment_length
        THEN Rows(<<Append(padded, ids_len)>>)
        ELSE IF Len(padded) = 1
        THEN Rows(<<Append(Repeat(padded[1], segment_length), ids_len)>>)
        ELSE Failed("ValueError")

\* PrePadding.__call__ from the line at 0-based position n on; index is the
\* start of the chunk of n, and acc the rows appended so far.
RECURSIVE PrePadding_call_from(_, _, _, _, _)
PrePadding_call_from(v, max_segment_size, data, n, acc) ==
    IF n >= Len(data) THEN Rows(acc)
    ELSE LET index          == n - (n % max_segment_size)
             segment_length == Len(ids_from_sentence(v, data[index + 1]))
             line           == PrePadding_convert_line(v, data[n + 1], segment_length)
         IN  IF line.state # "ok" THEN line
             ELSE PrePadding_call_from(v, max_segment_size, data, n + 1,
                                       acc \o line.rows)

PrePadding_call(v, max_segment_size, data) ==
    PrePadding_call_from(v, max_segment_size, data, 0, <<>>)

\* Mutant: the sort is ascending (reverse=False).
RECURSIVE SortedByLength_ascending(_)
SortedByLength_ascending(data) ==
    IF Len(data) = 0 THEN <<>>
    ELSE LET rest == SortedByLength_ascending(SubSeq(data, 1, Len(data) - 1))
             x    == data[Len(data)]
             k    == Cardinality({j \in 1..Len(rest) : Last(rest[j]) <= Last(x)})
         IN  SubSeq(rest, 1, k) \o <<x>> \o SubSeq(rest, k + 1, Len(rest))

\* sorted(data, key=lambda x: x[-1], reverse=True): by the trailing field,
\* largest first; the sort is stable, rows of equal key keep their order.
RECURSIVE SortedByLength(_)
SortedByLength(data) ==
    IF Len(data) = 0 THEN <<>>
    ELSE LET rest == SortedByLength(SubSeq(data, 1, Len(data) - 1))
             x    == data[Len(data)]
             k    == Cardinality({j \in 1..Len(rest) : Last(rest[j]) >= Last(x)})
         IN  SubSeq(rest, 1, k) \o <<x>> \o SubSeq(rest, k + 1, Len(rest))

\* Mutant: the pad id is appended after the length field (append instead of
\* insert(-1, ...)).
PostPadding_pad_row_append(v, row, batch_length) ==
    IF Len(row) - 1 < batch_length
    THEN row \o Repeat(Vocabulary_tokens(v, "<PAD>"), batch_length - (Len(row) - 1))
    ELSE row

\* while len(row) - 1 < batch_length: row.insert(-1, <PAD>)
PostPadding_pad_row(v, row, batch_length) ==
    IF Len(row) - 1 < batch_length
    THEN SubSeq(row, 1, Len(row) - 1)
            \o Repeat(Vocabulary_tokens(v, "<PAD>"), batch_length - (Len(row) - 1))
            \o <<Last(row)>>
    ELSE row

Rectangular(rows) == \A i, j \in 1..Len(rows) : Len(rows[i]) = Len(rows[j])

\* What create_batch leaves behind: the array it returned (or the exception)
\* and the caller's list, whose rows it may have changed in place.
BatchOutcome(state, rows, arg) == [state |-> state, rows |-> rows, arg |-> arg]

\* PostPadding.create_batch.  sorted() makes a new list of the same row
\* objects, so the pads are inserted into the rows of the caller's list too.
\* numpy.array(..., dtype='int') raises ValueError on rows of unequal length.
PostPadding_create_batch(v, data) ==
    IF Len(data) = 0 THEN {BatchOutcome("IndexError", <<>>, data)}
    ELSE LET batch_length == Last(SortedByLength(data)[1])
             padded == [n \in 1..Len(data) |-> PostPadding_pad_row(v, data[n], batch_length)]
             sorted_data == SortedByLength(padded)
         IN  IF Rectangular(sorted_data)
             THEN {BatchOutcome("ok", sorted_data, padded)}
             ELSE {BatchOutcome("ValueError", <<>>, padded)}

\* PrePadding.create_batch.  numpy.array(...) of rows of unequal length is a
\* 1-D array of the rows in an older numpy ("ragged") and a ValueError in
\* numpy 1.24 and later.
PrePadding_create_batch(v, data) ==
    LET sorted_data == SortedByLength(data)
    IN  IF Rectangular(sorted_data)
        THEN {BatchOutcome("ok", sorted_data, data)}
        ELSE {BatchOutcome("ragged", sorted_data, data),
              BatchOutcome("ValueError", <<>>, data)}

PaddingTypes == {"PostPadding", "PrePadding"}

Padding_call(padding_type, v, max_segment_size, data) ==
    IF padding_type = "PostPadding" THEN PostPadding_call(v, max_segment_size, data)
    ELSE PrePadding_call(v, max_segment_size, data)

Padding_create_batch(padding_type, v, data) ==
    IF padding_type = "PostPadding" THEN PostPadding_create_batch(v, data)
    ELSE PrePadding_create_batch(v, data)

NoBatch == [state |-> "none", rows |-> <<>>]

InitPad ==
    /\ padIn \in [padding_type     : PaddingTypes,
                  max_segment_size : 1..MaxSeg,
                  data             : SeqUpTo(Sentences, MaxData)]
    /\ converted = NoRows
    /\ batchArg = <<>>
    /\ batch = NoBatch

IdlePad ==
    /\ padIn = [padding_type |-> "PostPadding", max_segment_size |-> 1, data |-> <<>>]
    /\ converted = NoRows
    /\ batchArg = <<>>
    /\ batch = NoBatch

\* padder(data)
ConvertData ==
    /\ converted.state = "none"
    /\ converted' = Padding_call(padIn.padding_type, CorpusVocabulary,
                                 padIn.max_segment_size, padIn.data)
    /\ UNCHANGED <<padIn, batchArg, batch, vocabVars, langVars, queueVars, pipeVars,
                   modelVars>>

\* padder.create_batch(copy.deepcopy(converted data))
CreateBatch ==
    /\ converted.state = "ok"
    /\ batch.state = "none"
    /\ \E out \in Padding_create_batch(padIn.padding_type, CorpusVocabulary,
                                       converted.rows) :
          /\ batch' = [state |-> out.state, rows |-> out.rows]
          /\ batchArg' = out.arg
    /\ UNCHANGED <<padIn, converted, vocabVars, langVars, queueVars, pipeVars,
                   modelVars>>

NextPad == ConvertData \/ CreateBatch

\* --------------------------------------------------------------- DataQueue

\* The text of a file line is the sequence of its characters.
Digits == <<"0", "1", "2", "3", "4", "5", "6", "7", "8", "9">>

\* str(n) and '%d' % n, for n >= 0
RECURSIVE Str(_)
Str(n) == IF n < 10 THEN <<Digits[n + 1]>>
          ELSE Str(n \div 10) \o <<Digits[(n % 10) + 1]>>

\* ' '.join(list(map(str, ids)))
RECURSIVE JoinIds(_)
JoinIds(ids) ==
    IF Len(ids) = 0 THEN <<>>
    ELSE IF Len(ids) = 1 THEN Str(ids[1])
    ELSE JoinIds(SubSeq(ids, 1, Len(ids) - 1)) \o <<" ">> \o Str(ids[Len(ids)])

\* '%s %d\n' % (' '.join(list(map(str, ids))), len(ids))
FormatIdLine(ids) == JoinIds(ids) \o <<" ">> \o Str(Len(ids)) \o <<"\n">>

IsSpace(c) == c \in {" ", "\n"}

\* int(token) of a token of digits
RECURSIVE IntOf(_)
IntOf(token) ==
    IF Len(token) = 0 THEN 0
    ELSE 10 * IntOf(SubSeq(token, 1, Len(token) - 1))
            + (CHOOSE d \in 0..9 : Digits[d + 1] = token[Len(token)])

\* line.strip().split(): the maximal runs of characters that are no white
\* space, from position n on; token is the run being read.
RECURSIVE SplitFrom(_, _, _)
SplitFrom(line, n, token) ==
    IF n > Len(line)
    THEN IF Len(token) = 0 THEN <<>> ELSE <<token>>
    ELSE IF IsSpace(line[n])
    THEN IF Len(token) = 0 THEN SplitFrom(line, n + 1, <<>>)
         ELSE <<token>> \o SplitFrom(line, n + 1, <<>>)
    ELSE SplitFrom(line, n + 1, Append(token, line[n]))

\* list(map(int, line.strip().split()))
ParseIdLine(line) ==
    LET tokens == SplitFrom(line, 1, <<>>)
    IN  [j \in 1..Len(tokens) |-> IntOf(tokens[j])]

\* The lines of a corpus file.
CorpusLines == SeqUpTo({"hello"}, MaxLen)

CorpusFiles == SeqUpTo(CorpusLines, MaxLines)

\* Mutant: the last line of the text file is not written.
DataQueue_generate_id_file_short(v, text_file) ==
    [n \in 1..(Len(text_file) - 1) |-> FormatIdLine(ids_from_sentence(v, text_file[n]))]

\* DataQueue._generate_id_file: one line of ids and their count for every
\* line of the text file.
DataQueue_generate_id_file(v, text_file) ==
    [n \in 1..Len(text_file) |-> FormatIdLine(ids_from_sentence(v, text_file[n]))]

NoFile == [exists |-> FALSE, lines |-> <<>>, writes |-> 0]

\* An id file left by an earlier run, whatever the text file holds now.
OldIdFiles ==
    {[exists |-> TRUE, lines |-> DataQueue_generate_id_file(CorpusVocabulary, f),
      writes |-> 0] : f \in {<<>>, <<<<"zzz">>, <<"zzz", "hello">>>>}}

NoQueue == [state |-> "none", max_segment_size |-> 0, constructed |-> 0]

\* Mutant: the id file is written whether or not one exists.
DataQueue_init_file_always(v, text_file, id_file) ==
    [exists |-> TRUE,
     lines  |-> DataQueue_generate_id_file(v, text_file),
     writes |-> id_file.writes + 1]

\* DataQueue.__init__: the id file is written when os.path.isfile finds none.
DataQueue_init_file(v, text_file, id_file) ==
    IF id_file.exists THEN id_file
    ELSE [exists |-> TRUE,
          lines  |-> DataQueue_generate_id_file(v, text_file),
          writes |-> id_file.writes + 1]

\* A generator frame: "created" before the first next(), "suspended" at the
\* yield of the loop, "final" at the yield after the loop, "done" once
\* StopIteration was raised; pos counts the lines read from the file.
NoFrame == [state |-> "none", pos |-> 0, data_segment |-> <<>>]
NewFrame == [state |-> "created", pos |-> 0, data_segment |-> <<>>]

\* What a next() gives: the frame it leaves and the value it yields (none
\* when it raises StopIteration).
Yield(frame, value) == [frame |-> frame, yields |-> TRUE, value |-> value]
StopIteration(frame) ==
    [frame |-> [frame EXCEPT !.state = "done"], yields |-> FALSE, value |-> <<>>]

\* Mutant: the line that finds the segment full starts the next segment.
RECURSIVE DataQueue_generator_run_keeping(_, _, _)
DataQueue_generator_run_keeping(lines, max_segment_size, frame) ==
    IF frame.pos >= Len(lines)
    THEN Yield([frame EXCEPT !.state = "final"], frame.data_segment)
    ELSE LET line == lines[frame.pos + 1]
         IN  IF Len(frame.data_segment) < max_segment_size
             THEN DataQueue_generator_run_keeping(lines, max_segment_size,
                      [frame EXCEPT !.pos = @ + 1,
                                    !.data_segment = Append(@, ParseIdLine(line))])
             ELSE Yield([state |-> "suspended", pos |-> frame.pos + 1,
                         data_segment |-> <<ParseIdLine(line)>>],
                        frame.data_segment)

\* The loop of DataQueue.generator from the frame's position to its next
\* yield.  A line read while the segment is full makes the generator yield
\* the segment and clear it; that line itself is not appended.
RECURSIVE DataQueue_generator_run(_, _, _)
DataQueue_generator_run(lines, max_segment_size, frame) ==
    IF frame.pos >= Len(lines)
    THEN Yield([frame EXCEPT !.state = "final"], frame.data_segment)
    ELSE LET line == lines[frame.pos + 1]
         IN  IF Len(frame.data_segment) < max_segment_size
             THEN DataQueue_generator_run(lines, max_segment_size,
                      [frame EXCEPT !.pos = @ + 1,
                                    !.data_segment = Append(@, ParseIdLine(line))])
             ELSE Yield([state |-> "suspended", pos |-> frame.pos + 1,
                         data_segment |-> <<>>],
                        frame.data_segment)

\* next() on a generator of DataQueue.generator()
DataQueue_generator_next(lines, max_segment_size, frame) ==
    IF frame.state \in {"final", "done"} THEN StopIteration(frame)
    ELSE DataQueue_generator_run(lines, max_segment_size, frame)

InitQueue ==
    /\ srcFile \in CorpusFiles
    /\ idFile \in {NoFile} \cup OldIdFiles
    /\ queue = NoQueue
    /\ qgen = NoFrame
    /\ qout = <<>>

IdleQueue ==
    /\ srcFile = <<>>
    /\ idFile = NoFile
    /\ queue = NoQueue
    /\ qgen = NoFrame
    /\ qout = <<>>

\* DataQueue(corpora, max_segment_size)
ConstructDataQueue ==
    /\ queue.constructed < MaxConstructs
    /\ \E max_segment_size \in 1..MaxSeg :
          queue' = [state |-> "constructed", max_segment_size |-> max_segment_size,
                    constructed |-> queue.constructed + 1]
    /\ idFile' = DataQueue_init_file(CorpusVocabulary, srcFile, idFile)
    /\ qgen' = NoFrame
    /\ qout' = <<>>
    /\ UNCHANGED <<srcFile, vocabVars, langVars, padVars, pipeVars, modelVars>>

\* queue.generator(): a new generator; the one before it is dropped.
StartGenerator ==
    /\ queue.state = "constructed"
    /\ qgen.state # "created"
    /\ qgen' = NewFrame
    /\ qout' = <<>>
    /\ UNCHANGED <<srcFile, idFile, queue, vocabVars, langVars, padVars, pipeVars,
                   modelVars>>

\* next() on the generator
NextSegment ==
    /\ qgen.state \in {"created", "suspended", "final"}
    /\ LET r == DataQueue_generator_next(idFile.lines, queue.max_segment_size, qgen)
       IN  /\ qgen' = r.frame
           /\ qout' = IF r.yields THEN Append(qout, r.value) ELSE qout
    /\ UNCHANGED <<srcFile, idFile, queue, vocabVars, langVars, padVars, pipeVars,
                   modelVars>>

NextQueue == ConstructDataQueue \/ StartGenerator \/ NextSegment

\* --------------------------------------------------------- Input pipelines

\* The lines of the corpus files the pipelines are run on.
PipelineLines == {<<"hello">>, <<"hello", "zzz">>}

PipelineFiles == SeqUpTo(PipelineLines, MaxLines)

\* padding_type: the names of the Padding subclasses, and a name of none.
PaddingNames == PaddingTypes \cup {"NoPadding"}

NoCorpus == [state |-> "none", data |-> <<>>]

\* Mutant: _data is assigned the empty list before the exception is raised.
Monolingual_initialize_corpus_clearing(c, file) ==
    IF Len(file) = 0 THEN [raised |-> TRUE, corpus |-> [state |-> "loaded", data |-> <<>>]]
    ELSE [raised |-> FALSE, corpus |-> [state |-> "loaded", data |-> file]]

\* Monolingual.initialize_corpus: _data becomes the lines of the file; a file
\* of no lines raises ValueError and leaves _data as it was.
Monolingual_initialize_corpus(c, file) ==
    IF Len(file) = 0 THEN [raised |-> TRUE, corpus |-> c]
    ELSE [raised |-> FALSE, corpus |-> [state |-> "loaded", data |-> file]]

NoPipe ==
    [state |-> "none", kind |-> "", padding_type |-> "", max_segment_size |-> 0,
     batch_size |-> 0, shuffle |-> FALSE, data |-> <<>>]

\* The object __init__ has set up from its arguments.
PipeObject(kind, in, data) ==
    [state |-> "constructed", kind |-> kind, padding_type |-> in.padding_type,
     max_segment_size |-> in.max_segment_size, batch_size |-> in.batch_size,
     shuffle |-> in.shuffle, data |-> data]

\* __init__ left by an exception: no object.
PipeFailed(e) == [NoPipe EXCEPT !.state = e]

\* MemoryInput.__init__: the padder is looked up by name (KeyError), the
\* corpus is loaded (ValueError on an empty file) and converted by the padder
\* (ValueError from PrePadding).
MemoryInput_init(in, c, file) ==
    IF in.padding_type \notin PaddingTypes
    THEN [pipe |-> PipeFailed("KeyError"), corpus |-> c]
    ELSE LET loaded == Monolingual_initialize_corpus(c, file)
         IN  IF loaded.raised
             THEN [pipe |-> PipeFailed("ValueError"), corpus |-> loaded.corpus]
             ELSE LET data == Padding_call(in.padding_type, CorpusVocabulary,
                                           in.max_segment_size, loaded.corpus.data)
                  IN  IF data.state # "ok"
                      THEN [pipe |-> PipeFailed(data.state), corpus |-> loaded.corpus]
                      ELSE [pipe |-> PipeObject("MemoryInput", in, data.rows),
                            corpus |-> loaded.corpus]

\* FileInput.__init__: the DataQueue is constructed first, with its default
\* segment limit, and then the padder is looked up by name (KeyError).
FileInput_init(in, id_file, file) ==
    [id_file |-> DataQueue_init_file(CorpusVocabulary, file, id_file),
     queue   |-> [state |-> "constructed", max_segment_size |-> in.queue_segment,
                  constructed |-> 1],
     pipe    |-> IF in.padding_type \notin PaddingTypes THEN PipeFailed("KeyError")
                 ELSE PipeObject("FileInput", in, <<>>)]

\* The frame of a batch_generator() generator.  segment and index are the
\* data segment being cut into batches and the start of its next batch;
\* seg_index is the position of MemoryInput._segment_generator in _data; q,
\* file_data_segment and chunk_index are the DataQueue generator that
\* FileInput._segment_generator drives, the segment it gave last and the
\* position in it.  alias tells of every row of segment which row of the
\* pipeline's _data is the same object (its position from 1, 0 for none).
\* segments lists the data segments obtained so far.
NoGen ==
    [state |-> "none", segment |-> <<>>, alias |-> <<>>, index |-> 0,
     seg_index |-> 0, q |-> NewFrame, file_data_segment |-> <<>>,
     chunk_index |-> 0, segments |-> <<>>]

NewGen == [NoGen EXCEPT !.state = "created"]

\* Mutant: the segment is the slice itself, its rows are the rows of _data.
SliceAlias(index, n) == [k \in 1..n |-> index + k]

\* copy.deepcopy(self._data[index:index + max_segment_size]): the n rows of
\* the segment are new objects, none of them is a row of _data.
DeepcopyAlias(index, n) == [k \in 1..n |-> 0]

\* next() on MemoryInput._segment_generator
MemoryInput_segment_generator_next(p, f) ==
    IF f.seg_index < Len(p.data)
    THEN LET rows == Slice(p.data, f.seg_index, f.seg_index + p.max_segment_size)
         IN  Yield([f EXCEPT !.seg_index = @ + p.max_segment_size,
                             !.alias = DeepcopyAlias(f.seg_index, Len(rows))],
                   rows)
    ELSE StopIteration(f)

\* next() on FileInput._segment_generator
RECURSIVE FileInput_segment_generator_next(_, _, _, _)
FileInput_segment_generator_next(p, lines, limit, f) ==
    IF f.chunk_index < Len(f.file_data_segment)
    THEN LET rows == Slice(f.file_data_segment, f.chunk_index,
                           f.chunk_index + p.max_segment_size)
         IN  Yield([f EXCEPT !.chunk_index = @ + p.max_segment_size,
                             !.alias = [k \in 1..Len(rows) |-> 0]],
                   rows)
    ELSE LET r == DataQueue_generator_next(lines, limit, f.q)
         IN  IF ~r.yields THEN StopIteration([f EXCEPT !.q = r.frame])
             ELSE FileInput_segment_generator_next(p, lines, limit,
                      [f EXCEPT !.q = r.frame, !.file_data_segment = r.value,
                                !.chunk_index = 0])

segment_generator_next(p, lines, limit, f) ==
    IF p.kind = "MemoryInput" THEN MemoryInput_segment_generator_next(p, f)
    ELSE FileInput_segment_generator_next(p, lines, limit, f)

\* The orders sklearn.utils.shuffle may give a list of n rows.
Shuffles(n) ==
    {f \in [1..n -> 1..n] : \A a, b \in 1..n : f[a] = f[b] => a = b}

\* A batch as yielded: the array and where it was cut from.
BatchOf(f, outcome) ==
    [segment |-> Len(f.segments), index |-> f.index,
     state |-> outcome.state, rows |-> outcome.rows]

\* The step of range(0, len(segment) - batch_size + 1, batch_size).
BatchStep(batch_size) == batch_size

\* Mutant: range(0, len(segment) - batch_size, batch_size)
HasBatch_strict(f, batch_size) == f.index < Len(f.segment) - batch_size

\* index is in range(0, len(segment) - batch_size + 1, batch_size)
HasBatch(f, batch_size) == f.index < Len(f.segment) - batch_size + 1

\* The outcomes of create_batch in this installation: numpy either builds
\* arrays of rows of unequal length or raises ValueError for them.
InstalledOutcomes(in, outcomes) ==
    {o \in outcomes : o.state # (IF in.numpy_ragged THEN "ValueError" ELSE "ragged")
                      \/ Cardinality(outcomes) = 1}

\* The rows of a list after create_batch was given its slice from index on:
\* arg holds the rows of the slice as the call left them.
RowsAfter(rows, index, arg) ==
    [k \in 1..Len(rows) |->
        IF k > index /\ k <= index + Len(arg) THEN arg[k - index] ELSE rows[k]]

\* The pipeline's _data after the same call: the rows of it that are rows of
\* the slice have changed with them.
DataAfter(data, alias, index, arg) ==
    [n \in 1..Len(data) |->
        IF \E k \in 1..Len(arg) : alias[index + k] = n
        THEN arg[CHOOSE k \in 1..Len(arg) : alias[index + k] = n]
        ELSE data[n]]

\* What a next() on the batch generator gives, and the _data it leaves.
Step(frame, yields, value, data) ==
    [frame |-> frame, yields |-> yields, value |-> value, data |-> data]

\* The body of batch_generator from the frame's position to its next yield:
\* the outcomes it can have (the shuffle decides which).
RECURSIVE batch_generator_run(_, _, _, _, _)
batch_generator_run(in, p, lines, limit, f) ==
    IF HasBatch(f, p.batch_size)
    THEN {LET after == [f EXCEPT !.segment = RowsAfter(@, f.index, outcome.arg)]
              data  == DataAfter(p.data, f.alias, f.index, outcome.arg)
          IN  IF outcome.state \in {"ok", "ragged"}
              THEN Step([after EXCEPT !.state = "suspended",
                                      !.index = @ + BatchStep(p.batch_size)],
                        TRUE, BatchOf(f, outcome), data)
              ELSE Step([after EXCEPT !.state = outcome.state], FALSE, <<>>, data)
          : outcome \in InstalledOutcomes(in,
                            Padding_create_batch(p.padding_type, CorpusVocabulary,
                                Slice(f.segment, f.index, f.index + p.batch_size)))}
    ELSE LET r == segment_generator_next(p, lines, limit, f)
         IN  IF ~r.yields THEN {Step(r.frame, FALSE, <<>>, p.data)}
             ELSE UNION {batch_generator_run(in, p, lines, limit,
                             [r.frame EXCEPT
                                 !.segment = [k \in 1..Len(r.value) |-> r.value[order[k]]],
                                 !.alias = [k \in 1..Len(r.value) |-> r.frame.alias[order[k]]],
                                 !.index = 0,
                                 !.segments = Append(@, [k \in 1..Len(r.value) |->
                                                            r.value[order[k]]])])
                         : order \in IF p.shuffle THEN Shuffles(Len(r.value))
                                     ELSE {[k \in 1..Len(r.value) |-> k]}}

PipeInputs ==
    [kind             : {"MemoryInput"},
     padding_type     : PaddingNames,
     max_segment_size : 1..MaxSeg,
     batch_size       : 1..MaxBatch,
     shuffle          : BOOLEAN,
     numpy_ragged     : BOOLEAN,
     queue_segment    : {MAX_SEGMENT}]
    \cup
    [kind             : {"FileInput"},
     padding_type     : PaddingNames,
     max_segment_size : 1..MaxSeg,
     batch_size       : 1..MaxBatch,
     shuffle          : BOOLEAN,
     numpy_ragged     : BOOLEAN,
     queue_segment    : {SmallSegment, MAX_SEGMENT}]

\* No Corpora object of its own: the pipeline's corpus is a Monolingual.
NoCall == [kind |-> "", attrs |-> {}, separator |-> "", calls |-> 0, raised |-> "none"]

\* No pass before this one.
NoPass == [state |-> "none", batches |-> <<>>]

InitPipe ==
    /\ srcFile \in PipelineFiles
    /\ idFile = NoFile
    /\ queue = NoQueue
    /\ qgen = NoFrame
    /\ qout = <<>>
    /\ corpus = NoCorpus
    /\ pipeIn \in PipeInputs
    /\ pipe = NoPipe
    /\ gen = NoGen
    /\ batches = <<>>
    /\ earlier = NoPass
    /\ corpusCall = NoCall

\* No arguments: no pipeline is constructed.
NoPipeIn ==
    [kind |-> "", padding_type |-> "", max_segment_size |-> 0, batch_size |-> 0,
     shuffle |-> FALSE, numpy_ragged |-> FALSE, queue_segment |-> 0]

IdlePipe ==
    /\ corpus = NoCorpus
    /\ pipeIn = NoPipeIn
    /\ pipe = NoPipe
    /\ gen = NoGen
    /\ batches = <<>>
    /\ earlier = NoPass
    /\ corpusCall = NoCall

\* MemoryInput(max_segment_size, batch_size, shuffle, cuda, corpora, padding_type)
ConstructMemoryInput ==
    /\ pipe.state = "none"
    /\ pipeIn.kind = "MemoryInput"
    /\ LET r == MemoryInput_init(pipeIn, corpus, srcFile)
       IN  /\ pipe' = r.pipe
           /\ corpus' = r.corpus
    /\ UNCHANGED <<pipeIn, gen, batches, earlier, corpusCall, queueVars, vocabVars,
                   langVars, padVars,
                   modelVars>>

\* FileInput(max_segment_size, batch_size, cuda, shuffle, corpora, padding_type)
ConstructFileInput ==
    /\ pipe.state = "none"
    /\ pipeIn.kind = "FileInput"
    /\ LET r == FileInput_init(pipeIn, idFile, srcFile)
       IN  /\ pipe' = r.pipe
           /\ idFile' = r.id_file
           /\ queue' = r.queue
    /\ UNCHANGED <<pipeIn, corpus, gen, batches, earlier, corpusCall, srcFile, qgen,
                   qout, vocabVars, langVars, padVars, modelVars>>

\* pipe.batch_generator(): a new generator; the one before it is dropped.
StartPass ==
    /\ pipe.state = "constructed"
    /\ gen.state # "created"
    /\ gen' = NewGen
    /\ batches' = <<>>
    /\ earlier' = IF pipe.shuffle THEN NoPass
                  ELSE [state |-> gen.state, batches |-> batches]
    /\ UNCHANGED <<pipeIn, pipe, corpus, corpusCall, queueVars, vocabVars, langVars,
                   padVars, modelVars>>

\* next() on the generator
NextBatch ==
    /\ gen.state \in {"created", "suspended"}
    /\ \E r \in batch_generator_run(pipeIn, pipe, idFile.lines,
                                     queue.max_segment_size, gen) :
          /\ gen' = r.frame
          /\ batches' = IF r.yields THEN Append(batches, r.value) ELSE batches
          /\ pipe' = [pipe EXCEPT !.data = r.data]
    /\ UNCHANGED <<pipeIn, corpus, earlier, corpusCall, queueVars, vocabVars, langVars,
                   padVars, modelVars>>

NextPipe == ConstructMemoryInput \/ ConstructFileInput \/ StartPass \/ NextBatch

\* ------------------------------------------------------------------ Corpora

\* The characters of the text files.
Separators == {"|", ";"}

\* A line as the iteration of a file gives it: it ends with "\n", only the
\* last line of a file may have no "\n" and then is not empty.
FullLines ==
    {<<"\n">>, <<"a", "\n">>, <<"a", "|", "b", "\n">>, <<"|", "\n">>}

OpenLines == {<<"a">>, <<"a", "|", "b">>}

TextFiles ==
    UNION {[1..k -> FullLines] : k \in 0..MaxTextLines}
    \cup {Append(f, l) : f \in UNION {[1..k -> FullLines] : k \in 0..(MaxTextLines - 1)},
                         l \in OpenLines}

\* Corpora.__init__: the attributes the constructors set on the object.
\* Parallel.__init__ passes data_path, cuda and vocabulary on to
\* Corpora.__init__ and stores nothing of its own.
Corpora_init(kind, separator) ==
    [kind |-> kind, attrs |-> {"_vocabulary", "_data_path", "_cuda", "_data"},
     separator |-> separator, calls |-> 0, raised |-> "none"]

\* line[:-1]
DropLast(line) == SubSeq(line, 1, Len(line) - 1)

\* line.split(separator) for a separator of one character
RECURSIVE Split(_, _, _, _)
Split(line, separator, n, field) ==
    IF n > Len(line) THEN <<field>>
    ELSE IF line[n] = separator
         THEN <<field>> \o Split(line, separator, n + 1, <<>>)
         ELSE Split(line, separator, n + 1, Append(field, line[n]))

\* Parallel.initialize_corpus / Parallel._load_data: the first line read
\* needs self._separator_token (AttributeError when the object has none); a
\* file of no lines raises ValueError.
Parallel_initialize_corpus(obj, c, file) ==
    IF Len(file) = 0 THEN [raised |-> "ValueError", corpus |-> c]
    ELSE IF "_separator_token" \notin obj.attrs
         THEN [raised |-> "AttributeError", corpus |-> c]
         ELSE [raised |-> "none",
               corpus |-> [state |-> "loaded",
                           data |-> [n \in 1..Len(file) |->
                                       Split(DropLast(file[n]), obj.separator, 1, <<>>)]]]

InitCorpus ==
    /\ srcFile \in TextFiles
    /\ corpus = NoCorpus
    /\ corpusCall \in {Corpora_init(kind, separator) :
                          kind \in {"Monolingual", "Parallel"}, separator \in Separators}

\* corpora.initialize_corpus() of a Monolingual
InitializeMonolingual ==
    /\ corpusCall.kind = "Monolingual"
    /\ corpusCall.calls < MaxCalls
    /\ LET r == Monolingual_initialize_corpus(corpus, srcFile)
       IN  /\ corpus' = r.corpus
           /\ corpusCall' = [corpusCall EXCEPT
                                !.calls = @ + 1,
                                !.raised = IF r.raised THEN "ValueError" ELSE "none"]
    /\ UNCHANGED <<srcFile, idFile, queue, qgen, qout, pipeIn, pipe, gen, batches,
                   earlier, vocabVars, langVars, padVars, modelVars>>

\* corpora.initialize_corpus() of a Parallel
InitializeParallel ==
    /\ corpusCall.kind = "Parallel"
    /\ corpusCall.calls < MaxCalls
    /\ LET r == Parallel_initialize_corpus(corpusCall, corpus, srcFile)
       IN  /\ corpus' = r.corpus
           /\ corpusCall' = [corpusCall EXCEPT !.calls = @ + 1, !.raised = r.raised]
    /\ UNCHANGED <<srcFile, idFile, queue, qgen, qout, pipeIn, pipe, gen, batches,
                   earlier, vocabVars, langVars, padVars, modelVars>>

\* The file at data_path is written anew between two calls.
RewriteFile ==
    /\ corpusCall.calls \in 1..(MaxCalls - 1)
    /\ srcFile' \in TextFiles \ {srcFile}
    /\ UNCHANGED <<corpus, corpusCall, idFile, queue, qgen, qout, pipeIn, pipe, gen,
                   batches, earlier, vocabVars, langVars, padVars, modelVars>>

NextCorpus == InitializeMonolingual \/ InitializeParallel \/ RewriteFile

\* ----------------------------------------------------------------- SeqToSeq

UnitNames == {"encoder", "decoder"}

\* What the parameter setter of a unit does when it is called: it fails or
\* sets the Parameter values, the recurrent type and the cuda flag among them.
ParameterSetters ==
    [ok : BOOLEAN, recurrent_type : {"LSTM", "GRU"}, use_cuda : BOOLEAN]

\* RNNEncoder.__init__: the setter is stored, the components are None.
RNNEncoder_init(parameter_setter) ==
    [state |-> "constructed", parameter_setter |-> parameter_setter,
     parameters |-> "unset", recurrent_layer |-> "None", optimizer |-> "None"]

\* A unit that is not constructed yet, with the setter it will be given.
NoUnit(parameter_setter) ==
    [state |-> "none", parameter_setter |-> parameter_setter,
     parameters |-> "unset", recurrent_layer |-> "None", optimizer |-> "None"]

\* RNNEncoder.init_parameters: the Parameter attributes are set by the
\* setter, then the recurrent layer is made and moved to the device (cuda()
\* raises where there is no device).
RNNEncoder_init_parameters(unit, cuda_available) ==
    IF ~unit.parameter_setter.ok
    THEN [raised |-> TRUE, unit |-> unit]
    ELSE IF unit.parameter_setter.use_cuda /\ ~cuda_available
         THEN [raised |-> TRUE,
               unit |-> [unit EXCEPT !.parameters = "set",
                                     !.recurrent_layer = unit.parameter_setter.recurrent_type]]
         ELSE [raised |-> FALSE,
               unit |-> [unit EXCEPT !.parameters = "set",
                                     !.recurrent_layer = unit.parameter_setter.recurrent_type]]

\* RNNEncoder.init_optimizer: Adam over the parameters, with the learning
\* rate that init_parameters has set (AttributeError without it).
RNNEncoder_init_optimizer(unit) ==
    IF unit.parameters # "set" THEN [raised |-> TRUE, unit |-> unit]
    ELSE [raised |-> FALSE, unit |-> [unit EXCEPT !.optimizer = "Adam"]]

\* An entry of the call log.
Event(unit, what) == [unit |-> unit, what |-> what]

\* Mutant: unit.init_optimizer().init_parameters()
InitUnit_optimizer_first(name, unit, cuda_available) ==
    LET o == RNNEncoder_init_optimizer(unit)
        p == RNNEncoder_init_parameters(o.unit, cuda_available)
    IN  IF o.raised
        THEN [raised |-> TRUE, unit |-> o.unit,
              log |-> <<Event(name, "init_optimizer"), Event(name, "raised")>>]
        ELSE [raised |-> p.raised, unit |-> p.unit,
              log |-> <<Event(name, "init_optimizer"), Event(name, "init_parameters")>>]

\* unit.init_parameters().init_optimizer(): the value of the expression (the
\* unit) and the calls made.
InitUnit(name, unit, cuda_available) ==
    LET p == RNNEncoder_init_parameters(unit, cuda_available)
        o == RNNEncoder_init_optimizer(p.unit)
    IN  IF p.raised
        THEN [raised |-> TRUE, unit |-> p.unit,
              log |-> <<Event(name, "init_parameters"), Event(name, "raised")>>]
        ELSE IF o.raised
             THEN [raised |-> TRUE, unit |-> o.unit,
                   log |-> <<Event(name, "init_parameters"),
                             Event(name, "init_parameters returned"),
                             Event(name, "init_optimizer"), Event(name, "raised")>>]
             ELSE [raised |-> FALSE, unit |-> o.unit,
                   log |-> <<Event(name, "init_parameters"),
                             Event(name, "init_parameters returned"),
                             Event(name, "init_optimizer"),
                             Event(name, "init_optimizer returned")>>]

NoSeqToSeq ==
    [state |-> "none", cuda_available |-> FALSE, encoder |-> "None",
     decoder |-> "None", log |-> <<>>]

\* SeqToSeq.__init__(encoder, decoder): the two units arrive as arguments;
\* each is initialized and then stored, the encoder first.
SeqToSeq_init(model, us) ==
    LET arrived == <<Event("encoder", "passed to SeqToSeq"),
                     Event("decoder", "passed to SeqToSeq")>>
        e == InitUnit("encoder", us["encoder"], model.cuda_available)
        d == InitUnit("decoder", us["decoder"], model.cuda_available)
    IN  IF e.raised
        THEN [model |-> [model EXCEPT !.state = "raised", !.log = arrived \o e.log],
              units |-> [us EXCEPT !["encoder"] = e.unit]]
        ELSE IF d.raised
             THEN [model |-> [model EXCEPT
                                 !.state = "raised",
                                 !.log = arrived \o e.log
                                         \o <<Event("encoder", "stored")>> \o d.log],
                   units |-> [us EXCEPT !["encoder"] = e.unit, !["decoder"] = d.unit]]
             ELSE [model |-> [model EXCEPT
                                 !.state = "constructed",
                                 !.encoder = "encoder", !.decoder = "decoder",
                                 !.log = arrived \o e.log
                                         \o <<Event("encoder", "stored")>> \o d.log
                                         \o <<Event("decoder", "stored")>>],
                   units |-> [us EXCEPT !["encoder"] = e.unit, !["decoder"] = d.unit]]

InitModel ==
    /\ units \in [UnitNames -> {NoUnit(ps) : ps \in ParameterSetters}]
    /\ seqToSeq \in {[NoSeqToSeq EXCEPT !.cuda_available = c] : c \in BOOLEAN}

IdleModel ==
    /\ units = [u \in UnitNames |->
                  NoUnit([ok |-> FALSE, recurrent_type |-> "GRU", use_cuda |-> FALSE])]
    /\ seqToSeq = NoSeqToSeq

\* RNNEncoder(parameter_setter), and the decoder alike
ConstructUnit ==
    /\ \E u \in UnitNames :
          /\ units[u].state = "none"
          /\ units' = [units EXCEPT ![u] = RNNEncoder_init(units[u].parameter_setter)]
          /\ seqToSeq' = [seqToSeq EXCEPT !.log = Append(@, Event(u, "constructed"))]
    /\ UNCHANGED <<vocabVars, langVars, padVars, queueVars, pipeVars>>

\* SeqToSeq(encoder, decoder)
ConstructSeqToSeq ==
    /\ seqToSeq.state = "none"
    /\ \A u \in UnitNames : units[u].state = "constructed"
    /\ LET r == SeqToSeq_init(seqToSeq, units)
       IN  /\ seqToSeq' = [r.model EXCEPT !.log = seqToSeq.log \o @]
           /\ units' = r.units
    /\ UNCHANGED <<vocabVars, langVars, padVars, queueVars, pipeVars>>

NextModel == ConstructUnit \/ ConstructSeqToSeq

\* ---------------------------------------------------------- specifications

InitSpecVocab == InitVocab /\ IdleLang /\ IdlePad /\ IdleQueue /\ IdlePipe /\ IdleModel
SpecVocab == InitSpecVocab /\ [][NextVocab]_vars

InitSpecLang == InitLang /\ IdleVocab /\ IdlePad /\ IdleQueue /\ IdlePipe /\ IdleModel
SpecLang == InitSpecLang /\ [][NextLang]_vars

InitSpecPad == InitPad /\ IdleVocab /\ IdleLang /\ IdleQueue /\ IdlePipe /\ IdleModel
SpecPad == InitSpecPad /\ [][NextPad]_vars

InitSpecQueue == InitQueue /\ IdleVocab /\ IdleLang /\ IdlePad /\ IdlePipe /\ IdleModel
SpecQueue == InitSpecQueue /\ [][NextQueue]_vars

InitSpecPipe == InitPipe /\ IdleVocab /\ IdleLang /\ IdlePad /\ IdleModel
SpecPipe == InitSpecPipe /\ [][NextPipe]_vars

InitSpecCorpus ==
    /\ InitCorpus
    /\ IdleVocab /\ IdleLang /\ IdlePad
    /\ idFile = NoFile /\ queue = NoQueue /\ qgen = NoFrame /\ qout = <<>>
    /\ pipeIn = NoPipeIn /\ pipe = NoPipe /\ gen = NoGen /\ batches = <<>>
    /\ earlier = NoPass
    /\ IdleModel
SpecCorpus == InitSpecCorpus /\ [][NextCorpus]_vars

InitSpecModel ==
    InitModel /\ IdleVocab /\ IdleLang /\ IdlePad /\ IdleQueue /\ IdlePipe
SpecModel == InitSpecModel /\ [][NextModel]_vars

\* ------------------------------------------------- claims about Vocabulary

Built == vocabulary.state = "built"

IdOf(w) == DictGet(vocabulary.word_to_id, w)

ReservedSet == {ReservedTokens[i] : i \in 1..4}

LangSet == {vocabIn.langs[i] : i \in 1..Len(vocabIn.langs)}

FileWordSet == {vocabIn.words[i] : i \in 1..Len(vocabIn.words)}

\* The configured identifiers are pairwise distinct: the counterexamples below
\* are stated for such lists only, so none of them rests on a repeated
\* identifier.
DistinctLangs == Cardinality(LangSet) = Len(vocabIn.langs)

\* The header's count is the number of word lines of the file.
ValidHeader == vocabIn.header = Len(vocabIn.words)

\* C6: after construction the reserved tokens <SOS>, <EOS>, <UNK>, <PAD> hold
\* the 4 highest ids of word_to_id in that order, the language identifiers
\* hold the ids immediately below them, and no file word has an id greater
\* than or equal to the id of a reserved token.
C6_ReservedTokensHighest ==
    (Built /\ DistinctLangs /\ ValidHeader) =>
        /\ \A i \in 1..3 : IdOf(ReservedTokens[i]) < IdOf(ReservedTokens[i + 1])
        /\ \A w \in DictKeys(vocabulary.word_to_id) \ ReservedSet :
              IdOf(w) < IdOf("<SOS>")
        /\ {IdOf(t) : t \in LangSet} =
              (IdOf("<SOS>") - Len(vocabIn.langs))..(IdOf("<SOS>") - 1)
        /\ \A w \in FileWordSet \ LangSet : IdOf(w) < IdOf("<SOS>") - Len(vocabIn.langs)

\* C7: for a file whose header states its N word lines and k identifiers, the
\* raw vocab_size is N + k + 4, it is the number of distinct file tokens plus
\* the identifiers plus the 4 reserved tokens, that is the number of entries
\* of word_to_id, and the vocab_size property reports it minus 1.
C7_VocabSizeCountsEntries ==
    (Built /\ DistinctLangs /\ ValidHeader) =>
        /\ vocabulary.vocab_size = Len(vocabIn.words) + Len(vocabIn.langs) + 4
        /\ vocabulary.vocab_size = Cardinality(FileWordSet \cup LangSet) + 4
        /\ vocabulary.vocab_size = Len(vocabulary.word_to_id)
        /\ Vocabulary_vocab_size(vocabulary) = vocabulary.vocab_size - 1

\* C8: every word of the vocabulary round-trips through the two lookups:
\* word_to_id gives distinct words distinct ids and id_to_word inverts it,
\* also when the file repeats a word or lists a language identifier.
C8_LookupRoundTrip ==
    (Built /\ DistinctLangs /\ ValidHeader) =>
        /\ \A w \in DictKeys(vocabulary.word_to_id) :
              Vocabulary_call(vocabulary, Vocabulary_call(vocabulary, StrVal(w))) = StrVal(w)
        /\ \A w1, w2 \in DictKeys(vocabulary.word_to_id) :
              IdOf(w1) = IdOf(w2) => w1 = w2

\* On a file of pairwise distinct words, none of them an identifier, the
\* three statements above hold: the ids are 0..N+k+3 in insertion order.
WellFormedVocabIn ==
    /\ DistinctLangs
    /\ Cardinality(FileWordSet) = Len(vocabIn.words)
    /\ FileWordSet \cap LangSet = {}
    /\ ValidHeader

VocabularyWellFormedCase ==
    (Built /\ WellFormedVocabIn) =>
        /\ C6_ReservedTokensHighest
        /\ C7_VocabSizeCountsEntries
        /\ C8_LookupRoundTrip

\* The row of the embedding matrix at the id of a word.
RowOf(w) == vocabulary.embedding_weights[IdOf(w) + 1]

\* The embedding matrix is aligned with word_to_id.
EmbeddingsAligned ==
    /\ Len(vocabulary.embedding_weights) = vocabulary.vocab_size
    /\ \A w \in DictKeys(vocabulary.word_to_id) :
          IdOf(w) + 1 \in 1..Len(vocabulary.embedding_weights)
    /\ \A n \in 1..Len(vocabIn.words) :
          vocabIn.words[n] \notin LangSet =>
              \E k \in 1..Len(vocabIn.words) :
                  /\ vocabIn.words[k] = vocabIn.words[n]
                  /\ RowOf(vocabIn.words[n]) = FileRow(k - 1)
    /\ \A t \in ReservedSet : RowOf(t) = ZeroRow
    /\ \A t \in LangSet : RowOf(t).kind = "random"
    /\ \A t1, t2 \in LangSet : RowOf(t1) = RowOf(t2) => t1 = t2

\* C17: with provided embeddings the matrix has raw vocab_size rows; the row
\* at the id of a file word holds the weights parsed from a line of that word,
\* the rows at the ids of <SOS>, <EOS>, <UNK>, <PAD> are zeros and the rows at
\* the ids of the language identifiers are random draws, one for each.
C17_EmbeddingsAligned ==
    (Built /\ vocabIn.provided /\ DistinctLangs /\ ValidHeader) => EmbeddingsAligned

\* On a file of pairwise distinct words, none of them an identifier, the
\* matrix is aligned; with two words and one identifier rows 3-6 are zeros
\* and row 2 is random.
EmbeddingsWellFormedCase ==
    (Built /\ vocabIn.provided /\ WellFormedVocabIn) =>
        /\ EmbeddingsAligned
        /\ (Len(vocabIn.words) = 2 /\ Len(vocabIn.langs) = 1) =>
              /\ Len(vocabulary.embedding_weights) = 7
              /\ \A i \in 3..6 : vocabulary.embedding_weights[i + 1] = ZeroRow
              /\ vocabulary.embedding_weights[2 + 1].kind = "random"

\* --------------------------------------------------- claims about Language

ConstructionRan == language.state # "none"

\* The argument is no mapping, or a mapping without one of the required keys.
BadPipelines ==
    \/ langIn.input_pipelines.kind # "dict"
    \/ ~(RequiredPipelines \subseteq langIn.input_pipelines.keys)

\* C9: constructing a Language with an input_pipelines argument that is no
\* mapping or misses one of train, dev, test ends in the exit with the
\* configuration error and yields no instance: every Language instance has
\* the three keys.
C9_MissingKeyExits ==
    /\ (ConstructionRan /\ BadPipelines) =>
          (language.state = "SystemExit" /\ language.error # "")
    /\ language.state = "constructed" =>
          RequiredPipelines \subseteq language.input_pipelines

\* C9 witness: a mapping with train and dev but no test was refused.
C9_Witness ==
    /\ language.state = "SystemExit"
    /\ langIn.input_pipelines.kind = "dict"
    /\ langIn.input_pipelines.keys = {"train", "dev", "extra"}

\* C10 as stated: every constructed Language has exactly the keys train, dev,
\* test, a mapping with an additional key being refused.
C10_ExactlyRequiredKeys ==
    language.state = "constructed" => language.input_pipelines = RequiredPipelines

\* C10 as amended: the construction checks that train, dev and test are
\* present and nothing more: every mapping that has the three keys is
\* accepted and stored as given, additional keys included.
C10_RequiredKeysSuffice ==
    (/\ ConstructionRan
     /\ langIn.input_pipelines.kind = "dict"
     /\ RequiredPipelines \subseteq langIn.input_pipelines.keys) =>
        /\ language.state = "constructed"
        /\ language.input_pipelines = langIn.input_pipelines.keys
        /\ language.identifier = langIn.identifier

\* C10 witness: a Language was constructed from a mapping with a fourth key.
C10_Witness ==
    /\ language.state = "constructed"
    /\ language.input_pipelines = RequiredPipelines \cup {"extra"}

\* ---------------------------------------------------- claims about Padding

PadId == Vocabulary_tokens(CorpusVocabulary, "<PAD>")

\* The number of rows of seq that equal r.
Count(seq, r) == Cardinality({n \in 1..Len(seq) : seq[n] = r})

\* a is a permutation of b.
SameBag(a, b) ==
    /\ Len(a) = Len(b)
    /\ \A n \in 1..Len(a) : Count(a, a[n]) = Count(b, a[n])

\* The trailing fields are non-increasing from the first row to the last.
Descending(rows) ==
    \A n \in 1..(Len(rows) - 1) : Last(rows[n]) >= Last(rows[n + 1])

\* The largest trailing field of a non-empty list of rows.
MaxLength(rows) ==
    CHOOSE m \in {Last(rows[n]) : n \in 1..Len(rows)} :
        \A n \in 1..Len(rows) : Last(rows[n]) <= m

\* A row without its pad cells: its first true-length ids and the length.
Unpadded(row) ==
    IF Last(row) <= Len(row) - 1
    THEN Append(SubSeq(row, 1, Last(row)), Last(row))
    ELSE row

\* The samples handed to create_batch, as they were before the call.
BatchInput == converted.rows

\* C3: PostPadding.create_batch on a non-empty batch of samples ids + [true
\* length] returns rows of one length; the id part of every row is as long as
\* the largest true length of the batch, it starts with the sample's own ids
\* in order, and every cell after them holds the id of <PAD>.
C3_PostPaddingBatch ==
    (/\ padIn.padding_type = "PostPadding"
     /\ batch.state # "none"
     /\ Len(BatchInput) > 0) =>
        /\ batch.state = "ok"
        /\ \A n \in 1..Len(batch.rows) :
              LET row == batch.rows[n]
              IN  /\ Len(row) = MaxLength(BatchInput) + 1
                  /\ Last(row) <= Len(row) - 1
                  /\ \A j \in (Last(row) + 1)..(Len(row) - 1) : row[j] = PadId
        /\ SameBag([n \in 1..Len(batch.rows) |-> Unpadded(batch.rows[n])], BatchInput)

\* C3 witness: a batch of three samples of true lengths 1, 2 and 0 was padded.
C3_Witness ==
    /\ padIn.padding_type = "PostPadding"
    /\ batch.state = "ok"
    /\ Len(BatchInput) = 3
    /\ Last(BatchInput[1]) = 1
    /\ Last(BatchInput[2]) = 2
    /\ Last(BatchInput[3]) = 0

LineIds(n) == ids_from_sentence(CorpusVocabulary, padIn.data[n])

\* The first line of the chunk of max_segment_size lines that holds line n.
ChunkFirst(n) == n - ((n - 1) % padIn.max_segment_size)

\* No line of the padder's data is empty.
NoEmptyLine == \A n \in 1..Len(padIn.data) : Len(padIn.data[n]) > 0

\* C5: PrePadding's conversion gives every sample of a chunk of
\* max_segment_size lines the length of the chunk's first sample: as many id
\* cells as the first sample has ids, holding all ids of the sample and then
\* <PAD> ids, and one trailing cell with the sample's true length.  (Stated
\* for data without empty lines.)
C5_PrePaddingChunkLength ==
    (padIn.padding_type = "PrePadding" /\ converted.state # "none" /\ NoEmptyLine) =>
        /\ converted.state = "ok"
        /\ Len(converted.rows) = Len(padIn.data)
        /\ \A n \in 1..Len(converted.rows) :
              LET row            == converted.rows[n]
                  ids            == LineIds(n)
                  segment_length == Len(LineIds(ChunkFirst(n)))
              IN  /\ Len(row) = segment_length + 1
                  /\ Last(row) = Len(ids)
                  /\ Len(ids) <= segment_length
                  /\ \A j \in 1..segment_length :
                        row[j] = IF j <= Len(ids) THEN ids[j] ELSE PadId

\* Where no sample of a chunk is longer than the chunk's first sample, the
\* conversion does what C5 says.
PrePaddingShortChunks ==
    (\A n \in 1..Len(padIn.data) : Len(LineIds(n)) <= Len(LineIds(ChunkFirst(n))))
        => C5_PrePaddingChunkLength

\* The lines of the chunk of max_segment_size lines that holds line n.
ChunkOf(n) ==
    {k \in 1..Len(padIn.data) :
        k >= ChunkFirst(n) /\ k < ChunkFirst(n) + padIn.max_segment_size}

\* The number of ids of the longest line of the chunk that holds line n.
ChunkLongest(n) ==
    CHOOSE m \in {Len(LineIds(k)) : k \in ChunkOf(n)} :
        \A k \in ChunkOf(n) : Len(LineIds(k)) <= m

\* C19: PrePadding's conversion pads every sentence to the length of the
\* longest sentence of its chunk of max_segment_size sentences: no sentence
\* is longer than the id cells of its row, and the row holds all of its ids.
\* (Stated for data without empty lines.)
C19_PrePaddingLongest ==
    (padIn.padding_type = "PrePadding" /\ converted.state # "none" /\ NoEmptyLine) =>
        /\ converted.state = "ok"
        /\ Len(converted.rows) = Len(padIn.data)
        /\ \A n \in 1..Len(converted.rows) :
              LET row == converted.rows[n]
                  ids == LineIds(n)
              IN  /\ Len(row) = ChunkLongest(n) + 1
                  /\ Len(ids) <= Len(row) - 1
                  /\ SubSeq(row, 1, Len(ids)) = ids
                  /\ \A j \in (Len(ids) + 1)..(Len(row) - 1) : row[j] = PadId

\* Where the first sentence of every chunk is its longest, the conversion
\* does what C19 says.
PrePaddingFirstLongest ==
    (\A n \in 1..Len(padIn.data) : Len(LineIds(ChunkFirst(n))) = ChunkLongest(n))
        => C19_PrePaddingLongest

\* A conversion that returns rows may have lost an id: an empty first
\* sentence makes rows without id cells, and the one id of a sentence of one
\* word is broadcast onto the empty slice.  This state is reachable.
PrePaddingLosesId ==
    /\ padIn.padding_type = "PrePadding"
    /\ converted.state = "ok"
    /\ \E n \in 1..Len(padIn.data) : Len(LineIds(n)) > Len(converted.rows[n]) - 1

\* -------------------------------------------------- claims about DataQueue

\* The rows of a list of segments, in order.
RECURSIVE Flatten(_)
Flatten(segments) ==
    IF Len(segments) = 0 THEN <<>>
    ELSE Flatten(SubSeq(segments, 1, Len(segments) - 1)) \o segments[Len(segments)]

\* The rows of the lines of the id file.
IdFileRows == [n \in 1..Len(idFile.lines) |-> ParseIdLine(idFile.lines[n])]

\* A pass of the generator has run to its end.
QueuePassDone == qgen.state = "done"

\* C1: over an id file of M lines (M >= 1 here) and with segment size S, a
\* full pass of DataQueue.generator() yields ceil(M/S) segments whose sizes
\* sum to M: every line of the file is in exactly one segment, in file order.
C1_GeneratorYieldsEveryLine ==
    (QueuePassDone /\ Len(idFile.lines) >= 1) =>
        LET M == Len(idFile.lines)
            S == queue.max_segment_size
        IN  /\ Len(qout) = (M + S - 1) \div S
            /\ Len(Flatten(qout)) = M
            /\ Flatten(qout) = IdFileRows

\* A file of at most S lines is yielded whole, as one segment.
GeneratorWithinOneSegment ==
    (QueuePassDone /\ Len(idFile.lines) <= queue.max_segment_size) =>
        qout = <<IdFileRows>>


\* The id file is what _generate_id_file makes of the text file: one line for
\* every line of the text file, reading as that line's ids and their count.
IsTransform(id_lines, text_file) ==
    /\ Len(id_lines) = Len(text_file)
    /\ \A n \in 1..Len(text_file) :
          LET ids == ids_from_sentence(CorpusVocabulary, text_file[n])
          IN  ParseIdLine(id_lines[n]) = Append(ids, Len(ids))

\* C11: a DataQueue construction that finds the id file leaves it as it is
\* and does not run _generate_id_file, the only reader of the text file
\* (idFile.writes counts its runs); the id file changes only in a
\* construction that found none.
C11_ExistingCacheKept ==
    [][/\ idFile.exists => idFile' = idFile
       /\ idFile' # idFile =>
             /\ ~idFile.exists
             /\ queue'.constructed = queue.constructed + 1
             /\ idFile'.writes = idFile.writes + 1]_vars

\* C11 witness: two constructions over an id file that was there before, and
\* that is not what the text file would give, have left it unwritten.
C11_Witness ==
    /\ queue.constructed = 2
    /\ idFile.exists
    /\ idFile.writes = 0
    /\ ~IsTransform(idFile.lines, srcFile)

PassEnded == gen.state \notin {"none", "created", "suspended"}

\* The batches cut from the k-th data segment of the pass, in order.
SegmentBatches(k) == SelectSeq(batches, LAMBDA b : b.segment = k)

\* The samples of rows without their pad cells.
UnpaddedRows(rows) == [n \in 1..Len(rows) |-> Unpadded(rows[n])]

\* Every data segment of the pass, of length L, has given L \div batch_size
\* batches; the j-th of them holds the batch_size samples of the segment from
\* position (j - 1) * batch_size on, so that the last L % batch_size samples
\* of the segment are in no batch.
FullBatchesPerSegment ==
    \A k \in 1..Len(gen.segments) :
        LET segment == gen.segments[k]
            mine    == SegmentBatches(k)
        IN  /\ Len(segment) <= pipe.max_segment_size
            /\ Len(mine) = Len(segment) \div pipe.batch_size
            /\ \A j \in 1..Len(mine) :
                  /\ mine[j].index = (j - 1) * pipe.batch_size
                  /\ Len(mine[j].rows) = pipe.batch_size
                  /\ SameBag(UnpaddedRows(mine[j].rows),
                             UnpaddedRows(Slice(segment, mine[j].index,
                                                mine[j].index + pipe.batch_size)))

\* A corpus of five lines with max_segment_size=2, batch_size=2 and
\* shuffle=False, read under the DataQueue's own segment limit.
FiveLineCorpus ==
    /\ Len(srcFile) = 5
    /\ pipe.max_segment_size = 2
    /\ pipe.batch_size = 2
    /\ ~pipe.shuffle
    /\ pipeIn.queue_segment = MAX_SEGMENT

\* C2: a pass of batch_generator() of MemoryInput or FileInput yields, for
\* every data segment of length L, exactly floor(L / batch_size) batches of
\* batch_size samples each, the trailing L mod batch_size samples being in no
\* batch; a corpus of five lines with max_segment_size=2, batch_size=2 and
\* shuffle=False yields exactly two batches of two samples.  (Stated for
\* the DataQueue's own segment limit, which no corpus file here exceeds.)
C2_FullBatchesPerSegment ==
    (PassEnded /\ pipeIn.queue_segment = MAX_SEGMENT) =>
        /\ FullBatchesPerSegment
        /\ FiveLineCorpus =>
              /\ Len(batches) = 2
              /\ \A n \in 1..Len(batches) : Len(batches[n].rows) = 2

\* The statement of C2 holds of every pass that ran to its StopIteration.
TruncationInCompletedPasses ==
    gen.state = "done" =>
        /\ FullBatchesPerSegment
        /\ FiveLineCorpus =>
              /\ Len(batches) = 2
              /\ \A n \in 1..Len(batches) : Len(batches[n].rows) = 2

\* It holds of every pass of MemoryInput, and of FileInput under PostPadding.
TruncationWherePadded ==
    (PassEnded /\ (pipe.kind = "MemoryInput" \/ pipe.padding_type = "PostPadding")) =>
        /\ gen.state = "done"
        /\ FullBatchesPerSegment

\* A completed pass over five lines that dropped the trailing sample of its
\* third segment.
TruncationSeen ==
    /\ gen.state = "done"
    /\ FiveLineCorpus
    /\ Len(gen.segments) = 3
    /\ Len(gen.segments[3]) = 1
    /\ Len(batches) = 2


\* The pass has ended by StopIteration or by an exception.
Ended(state) == state \notin {"none", "created", "suspended"}

\* The batches of this pass and of the pass before it are the same as far as
\* both have come, and two ended passes have ended alike.
SamePasses ==
    /\ \A n \in 1..Len(batches) :
          n <= Len(earlier.batches) => batches[n] = earlier.batches[n]
    /\ Ended(earlier.state) => Len(batches) <= Len(earlier.batches)
    /\ Ended(gen.state) => Len(earlier.batches) <= Len(batches)
    /\ (Ended(earlier.state) /\ Ended(gen.state)) =>
          /\ gen.state = earlier.state
          /\ batches = earlier.batches

\* C13: batch_generator() starts a new pass at the first segment whether the
\* pass before it was exhausted or left midway; no step of a constructed
\* pipeline (PostPadding's insertion of pad ids into the rows it is given
\* included) changes the pipeline's converted data or the id file; with
\* shuffle=False a pass yields the batches the pass before it yielded.
C13_FreshPasses ==
    /\ [][/\ pipe.state = "constructed" => (pipe' = pipe /\ idFile' = idFile)
          /\ (gen'.state = "created" /\ gen' # gen) =>
                (gen' = NewGen /\ batches' = <<>>)]_vars
    /\ []((pipe.state = "constructed" /\ ~pipe.shuffle /\ earlier.state # "none")
              => SamePasses)

\* C13 witness: a MemoryInput under PostPadding ran a second pass to its end,
\* after a pass left at its first batch; the first batch holds a pad id.
C13_Witness ==
    /\ pipe.kind = "MemoryInput"
    /\ pipe.padding_type = "PostPadding"
    /\ ~pipe.shuffle
    /\ earlier.state = "suspended"
    /\ Len(earlier.batches) = 1
    /\ gen.state = "done"
    /\ Len(batches) = 2
    /\ \E n \in 1..Len(batches[1].rows) :
          Last(batches[1].rows[n]) < Len(batches[1].rows[n]) - 1


\* ---------------------------------------------------- claims about Corpora

\* C14: the data of a Corpora object is None as long as initialize_corpus was
\* not called; Monolingual.initialize_corpus on a file of no lines raises
\* ValueError ("The given file is empty.") and leaves the data as it was, and
\* on a file with lines it sets the data to the lines of the file in order.
C14_MonolingualLoad ==
    /\ []((corpusCall.kind # "" /\ corpusCall.calls = 0) => corpus = NoCorpus)
    /\ [][(corpusCall.kind = "Monolingual" /\ corpusCall'.calls = corpusCall.calls + 1) =>
             IF Len(srcFile) = 0
             THEN /\ corpusCall'.raised = "ValueError"
                  /\ corpus' = corpus
             ELSE /\ corpusCall'.raised = "none"
                  /\ corpus'.state = "loaded"
                  /\ Len(corpus'.data) = Len(srcFile)
                  /\ \A n \in 1..Len(srcFile) : corpus'.data[n] = srcFile[n]]_vars

\* C14 witness: a Monolingual that had loaded two lines was initialized
\* again on the file rewritten without lines; the call raised and the two
\* lines are still its data.
C14_Witness ==
    /\ corpusCall.kind = "Monolingual"
    /\ corpusCall.calls = 2
    /\ corpusCall.raised = "ValueError"
    /\ Len(srcFile) = 0
    /\ corpus.state = "loaded"
    /\ Len(corpus.data) = 2

\* A line without its trailing newline.
StripNewline(line) ==
    IF Len(line) > 0 /\ line[Len(line)] = "\n" THEN DropLast(line) ELSE line

\* C15: Parallel.initialize_corpus on a file with lines sets the data to one
\* entry for every line of the file: the line without its trailing newline,
\* split on the separator given to the constructor.
C15_ParallelLoad ==
    [][(/\ corpusCall.kind = "Parallel"
        /\ corpusCall'.calls = corpusCall.calls + 1
        /\ Len(srcFile) > 0) =>
           /\ corpusCall'.raised = "none"
           /\ corpus'.state = "loaded"
           /\ Len(corpus'.data) = Len(srcFile)
           /\ \A n \in 1..Len(srcFile) :
                 corpus'.data[n] = Split(StripNewline(srcFile[n]),
                                         corpusCall.separator, 1, <<>>)]_vars

\* No call of Parallel.initialize_corpus ever loads data: it raises
\* ValueError on a file of no lines and AttributeError on any other.
ParallelNeverLoads ==
    corpusCall.kind = "Parallel" =>
        /\ corpus = NoCorpus
        /\ corpusCall.calls > 0 => corpusCall.raised \in {"ValueError", "AttributeError"}


\* --------------------------------------------------- claims about SeqToSeq

\* The place of an event in the call log, 0 when it is not there.
Pos(unit, what) ==
    IF \E n \in 1..Len(seqToSeq.log) : seqToSeq.log[n] = Event(unit, what)
    THEN CHOOSE n \in 1..Len(seqToSeq.log) : seqToSeq.log[n] = Event(unit, what)
    ELSE 0

Happened(unit, what) == Pos(unit, what) > 0

\* Every event is in the log once at most.
NoEventTwice ==
    \A n, k \in 1..Len(seqToSeq.log) : seqToSeq.log[n] = seqToSeq.log[k] => n = k

\* init_parameters and init_optimizer are called in this order on a
\* constructed unit; init_optimizer is called only after init_parameters
\* has returned.
HooksInOrder(u) ==
    /\ Happened(u, "init_parameters") =>
          /\ Happened(u, "constructed")
          /\ Pos(u, "constructed") < Pos(u, "init_parameters")
    /\ Happened(u, "init_optimizer") =>
          /\ Happened(u, "init_parameters returned")
          /\ Pos(u, "init_parameters") < Pos(u, "init_parameters returned")
          /\ Pos(u, "init_parameters returned") < Pos(u, "init_optimizer")

CorpusSamples ==
    [n \in 1..Len(srcFile) |->
        LET ids == ids_from_sentence(CorpusVocabulary, srcFile[n])
        IN  Append(ids, Len(ids))]

\* The samples of all batches of the pass, without pad cells.
BatchedSamples ==
    Flatten([n \in 1..Len(batches) |-> UnpaddedRows(batches[n].rows)])

\* The samples of all data segments of the pass.
SegmentSamples ==
    Flatten([k \in 1..Len(gen.segments) |-> UnpaddedRows(gen.segments[k])])

\* The samples of the data segments without the last L % batch_size samples
\* of each segment of length L.
FullBatchSamples ==
    Flatten([k \in 1..Len(gen.segments) |->
                LET L == Len(gen.segments[k])
                IN  UnpaddedRows(SubSeq(gen.segments[k], 1, L - (L % pipe.batch_size)))])

\* A pass that ran to its StopIteration, of a MemoryInput or of a FileInput
\* whose id file is no longer than the segment limit of its DataQueue.
FullPass ==
    /\ gen.state = "done"
    /\ pipe.kind = "FileInput" => Len(idFile.lines) <= queue.max_segment_size

C20_BatchesRectangular ==
    (pipe.state = "constructed" /\ pipeIn.queue_segment = MAX_SEGMENT) =>
        /\ gen.state # "ValueError"
        /\ \A n \in 1..Len(batches) :
              /\ batches[n].state = "ok"
              /\ Rectangular(batches[n].rows)

\* The batches of a MemoryInput, and those of a FileInput under PostPadding,
\* are such arrays.
BatchesRectangularWherePadded ==
    (pipe.state = "constructed"
        /\ (pipe.kind = "MemoryInput" \/ pipe.padding_type = "PostPadding")) =>
        /\ gen.state \in {"none", "created", "suspended", "done"}
        /\ \A n \in 1..Len(batches) :
              /\ batches[n].state = "ok"
              /\ Rectangular(batches[n].rows)

\* A FileInput under PrePadding hands create_batch the rows of the id file
\* as they are: whenever two samples of a batch differ in length the batch is
\* a 1-D array of rows or the ValueError of numpy.
FileInputPrePaddingUnpadded ==
    (pipe.kind = "FileInput" /\ pipe.padding_type = "PrePadding") =>
        /\ \A n \in 1..Len(batches) : batches[n].rows = UnpaddedRows(batches[n].rows)
        /\ \A k \in 1..Len(gen.segments) :
              gen.segments[k] = UnpaddedRows(gen.segments[k])


\* A whole pass of batch_generator() from frame f on, for a pipeline whose
\* passes have one outcome (shuffle=False): how it ends and what it yields.
RECURSIVE RunPass(_, _, _, _, _, _)
RunPass(in, p, lines, limit, f, acc) ==
    LET r == CHOOSE x \in batch_generator_run(in, p, lines, limit, f) : TRUE
    IN  IF r.yields
        THEN RunPass(in, [p EXCEPT !.data = r.data], lines, limit, r.frame,
                     Append(acc, r.value))
        ELSE [state |-> r.frame.state, batches |-> acc]

\* MemoryInput constructed with the arguments of this pipeline over the same
\* corpus file, and its first pass.
MemoryInputPass ==
    LET in == [pipeIn EXCEPT !.kind = "MemoryInput"]
        m  == MemoryInput_init(in, NoCorpus, srcFile)
    IN  IF m.pipe.state # "constructed"
        THEN [state |-> m.pipe.state, batches |-> <<>>]
        ELSE RunPass(in, m.pipe, <<>>, 0, NewGen, <<>>)

\* A finished pass of a FileInput under PostPadding with shuffle=False, over
\* the id file its construction has written, the corpus having lines.
FileInputPassDone ==
    /\ pipe.state = "constructed"
    /\ pipe.kind = "FileInput"
    /\ pipe.padding_type = "PostPadding"
    /\ ~pipe.shuffle
    /\ Ended(gen.state)
    /\ idFile.writes = 1
    /\ Len(srcFile) >= 1

\* C21: for one corpus file, vocabulary, max_segment_size, batch_size,
\* PostPadding and shuffle=False the pass of FileInput over a new id file
\* yields the batches the pass of MemoryInput yields, whatever the number of
\* lines of the corpus, also beyond the segment limit of the DataQueue.
C21_FileInputAsMemoryInput ==
    FileInputPassDone =>
        /\ MemoryInputPass.state = gen.state
        /\ Len(MemoryInputPass.batches) = Len(batches)
        /\ \A n \in 1..Len(batches) :
              MemoryInputPass.batches[n].rows = batches[n].rows

\* The two passes are the same for a corpus of no more lines than the
\* segment limit of the DataQueue.
SamePassWithinLimit ==
    (FileInputPassDone /\ Len(srcFile) <= queue.max_segment_size) =>
        /\ MemoryInputPass.state = gen.state
        /\ MemoryInputPass.batches = batches


\* The construction was tried with a padding_type that names no Padding class.
UnknownPaddingTried ==
    /\ pipe.state # "none"
    /\ pipeIn.padding_type \notin PaddingTypes

\* C22: constructing a MemoryInput or a FileInput with a padding_type that
\* names no Padding class fails and leaves nothing behind: no id file was
\* created and the data of the corpus is still None.
C22_FailedConstructionLeavesNothing ==
    UnknownPaddingTried =>
        /\ pipe.state = "KeyError"
        /\ ~idFile.exists
        /\ idFile.writes = 0
        /\ corpus = NoCorpus

\* Both constructions fail with KeyError; the one of MemoryInput leaves
\* nothing behind, the one of FileInput has written the id file before.
UnknownPaddingFails ==
    UnknownPaddingTried =>
        /\ pipe.state = "KeyError"
        /\ corpus = NoCorpus
        /\ pipeIn.kind = "MemoryInput" => (~idFile.exists /\ idFile.writes = 0)
        /\ pipeIn.kind = "FileInput" =>
              /\ idFile.exists
              /\ idFile.writes = 1
              /\ IsTransform(idFile.lines, srcFile)

====
